---- MODULE Spec2Model ----
(***************************************************************************)
(* A small-step model of the YARD rule combinators of                      *)
(* src/trunk/cpp/yard/yard_base_grammar.hpp.                               *)
(*                                                                         *)
(* A rule is a type with one static Match(p) function.  Here a rule is a   *)
(* record (its template arguments are the fields), a call of Match is a    *)
(* frame on the call stack, and every action is one stretch of a Match     *)
(* body between two calls of a sub-rule.  The parser state p (position,    *)
(* node tree, stack of open nodes) and the character rules are not part of *)
(* that file; they follow the cursor contract of the specification.        *)
(***************************************************************************)
EXTENDS Integers, Sequences, FiniteSets, TLC

VARIABLES
    grammar, \* the outermost rule, whose Match is called once
    input,   \* the text being parsed (never changes during a match)
    p,       \* the parser state: [pos, nodes, open, fault]
    stack,   \* the call stack of Match activations, innermost last
    ret,     \* what the last finished call produced: none/true/false/throw/abort
    ops      \* the parser operations performed by the last step, in order

vars == <<grammar, input, p, stack, ret, ops>>

-----------------------------------------------------------------------------
(* Bounds of the model *)

MaxLen == 3         \* longest input text
MaxNodes == 3       \* StartNode is not taken beyond this many nodes in the tree

\* The alphabet of the texts: a digit, the literal '#' and another character
Chars == {"1", "a", "#"}
Digits == {"1"}
\* Label_T::id of two labels
L1 == 1
L2 == 2

Inputs == UNION {[1..n -> Chars] : n \in 0..MaxLen}

-----------------------------------------------------------------------------
(* Rules: the template instantiations, as data *)

\* Or and Seq take ten rule parameters T0..T9
NumSlots == 10

Rule(o, l, k, c, r) == [op |-> o, lab |-> l, n |-> k, cs |-> c, rs |-> r]

True_T == Rule("True_T", 0, 0, {}, <<>>)
False_T == Rule("False_T", 0, 0, {}, <<>>)
EndOfInput_T == Rule("EndOfInput_T", 0, 0, {}, <<>>)
Char(c) == Rule("Char", 0, 0, c, <<>>)
Digit == Char(Digits)
Literal(ch) == Char({ch})

Store(l, r) == Rule("Store", l, 0, {}, <<r>>)
Finao(r) == Rule("Finao", 0, 0, {}, <<r>>)
At(r) == Rule("At", 0, 0, {}, <<r>>)
NotAt(r) == Rule("NotAt", 0, 0, {}, <<r>>)
Star(r) == Rule("Star", 0, 0, {}, <<r>>)
Plus(r) == Rule("Plus", 0, 0, {}, <<r>>)
Opt(r) == Rule("Opt", 0, 0, {}, <<r>>)
Repeat(r, k) == Rule("Repeat", 0, k, {}, <<r>>)
UntilPast(r) == Rule("UntilPast", 0, 0, {}, <<r>>)

\* rs followed by the default template arguments d up to ten slots
Pad(rs, d) == [k \in 1..NumSlots |-> IF k <= Len(rs) THEN rs[k] ELSE d]
Or(rs) == Rule("Or", 0, 0, {}, Pad(rs, False_T))
\* Seq with False_T as the default of its unused slots
SeqRule_PaddedFalse(rs) == Rule("Seq", 0, 0, {}, Pad(rs, False_T))
SeqRule(rs) == Rule("Seq", 0, 0, {}, Pad(rs, True_T))

\* UntilAt deriving from UntilPast<Rule_T>, the lookahead forgotten
UntilAt_NoLookahead(r) == UntilPast(r)
UntilAt(r) == UntilPast(At(r))
StoreFinao(l, r) == Store(l, Finao(r))
FinaoIf(t, u) == SeqRule(<<t, Finao(u)>>)
StoreIf(l, t, u) == SeqRule(<<t, StoreFinao(l, u)>>)

-----------------------------------------------------------------------------
(* The parser state (cursor) *)

\* A position past the end of the text: what GotoNext at the end may produce.
PastEnd == Len(input) + 1

GetPos(c) == c.pos
SetPos(c, pos) == [c EXCEPT !.pos = pos]

\* AtEnd at a position inside the text is decided; past the end it depends on
\* how the iterator comparison comes out.
AtEndVals(c) == IF c.pos <= Len(input) THEN {c.pos = Len(input)} ELSE BOOLEAN

\* GotoNext inside the text moves one unit.  At (or past) the end its effect is
\* undefined: the iterator overruns, stays, or the program aborts (fault).
GotoNextVals(c) ==
    IF c.pos < Len(input)
    THEN {[c EXCEPT !.pos = c.pos + 1]}
    ELSE {[c EXCEPT !.pos = PastEnd], c, [c EXCEPT !.fault = TRUE]}

\* The element under the cursor; past the end any value may be read.
ElemVals(c) == IF c.pos < Len(input) THEN {input[c.pos + 1]} ELSE Chars \cup {"?"}

Top(s) == s[Len(s)]
Front(s) == SubSeq(s, 1, Len(s) - 1)

StartNode(c, l) ==
    [c EXCEPT !.nodes = Append(c.nodes,
                               [label |-> l, first |-> c.pos, last |-> c.pos,
                                done |-> FALSE,
                                parent |-> IF c.open = <<>> THEN 0 ELSE Top(c.open)]),
              !.open = Append(c.open, Len(c.nodes) + 1)]

CompleteNode(c, l) ==
    [c EXCEPT !.nodes[Top(c.open)].done = TRUE,
              !.nodes[Top(c.open)].last = c.pos,
              !.open = Front(c.open)]

RECURSIVE IsDescendant(_, _, _)
IsDescendant(ns, k, n) ==
    IF k = 0 THEN FALSE
    ELSE IF k = n THEN TRUE
    ELSE IsDescendant(ns, ns[k].parent, n)

\* Discards the innermost open node with everything below it.  A node's
\* descendants were all created after it, so what is kept is a prefix.
AbandonNode(c, l) ==
    LET n == Top(c.open)
        keep == {k \in 1..Len(c.nodes) : ~IsDescendant(c.nodes, k, n)}
    IN  [c EXCEPT !.nodes = [k \in 1..Cardinality(keep) |-> c.nodes[k]],
                  !.open = Front(c.open)]

-----------------------------------------------------------------------------
(* The call stack *)

\* A fresh activation of r.Match(c).  pos and i are the locals of the body;
\* entry records the parser state the call was made in.  In the loops that
\* keep no counter (Star, UntilPast) and in Plus and Opt, i records how often
\* the sub-rule has been applied, counting no further than Len(input) + 2.
Frame(c, r) == [rule |-> r, pc |-> "start", pos |-> 0, i |-> 0, entry |-> c]

Count(k) == IF k < Len(input) + 2 THEN k + 1 ELSE k

Running == stack # <<>> /\ ret # "abort"
top == Top(stack)
Sub == top.rule.rs[1]

\* The body of the innermost call starts
Entering(o) == Running /\ ret = "none" /\ top.rule.op = o /\ top.pc = "start"
\* A sub-rule called by the innermost call at label pc has returned b
Returned(o, pc) == Running /\ ret \in {"true", "false"} /\ top.rule.op = o /\ top.pc = pc

\* return b: the activation is popped
Return(b) == /\ stack' = Front(stack)
             /\ ret' = IF b THEN "true" ELSE "false"

\* r::Match(c), the caller continuing at label pc with locals pos and i
Call(c, r, pc, pos, i) ==
    /\ stack' = Append([stack EXCEPT ![Len(stack)].pc = pc,
                                     ![Len(stack)].pos = pos,
                                     ![Len(stack)].i = i],
                       Frame(c, r))
    /\ ret' = "none"

-----------------------------------------------------------------------------
(* Leaf rules *)

True_Match ==
    /\ Entering("True_T")
    /\ Return(TRUE)
    /\ ops' = <<>>
    /\ UNCHANGED <<grammar, input, p>>

False_Match ==
    /\ Entering("False_T")
    /\ Return(FALSE)
    /\ ops' = <<>>
    /\ UNCHANGED <<grammar, input, p>>

EndOfInput_Match ==
    /\ Entering("EndOfInput_T")
    /\ \E e \in AtEndVals(p) : Return(e)
    /\ ops' = <<"AtEnd">>
    /\ UNCHANGED <<grammar, input, p>>

\* A single-character rule: fails at the end of the text, otherwise consumes
\* the element under the cursor when it belongs to the rule's set.
Char_Match ==
    /\ Entering("Char")
    /\ \E e \in AtEndVals(p), x \in ElemVals(p), c \in GotoNextVals(p) :
          IF e
          THEN /\ Return(FALSE) /\ p' = p /\ ops' = <<"AtEnd">>
          ELSE IF x \notin top.rule.cs
          THEN /\ Return(FALSE) /\ p' = p /\ ops' = <<"AtEnd", "GetElem">>
          ELSE IF c.fault
          THEN /\ stack' = stack /\ ret' = "abort" /\ p' = c
               /\ ops' = <<"AtEnd", "GetElem", "GotoNext">>
          ELSE /\ Return(TRUE) /\ p' = c
               /\ ops' = <<"AtEnd", "GetElem", "GotoNext">>
    /\ UNCHANGED <<grammar, input>>

-----------------------------------------------------------------------------
(* Store, lines 25-54 *)

Store_Enter ==
    /\ Entering("Store")
    /\ Len(p.nodes) < MaxNodes
    /\ p' = StartNode(p, top.rule.lab)
    /\ Call(p', Sub, "try", 0, 0)
    /\ ops' = <<"StartNode">>
    /\ UNCHANGED <<grammar, input>>

\* Store opening the node where the sub-rule ended: StartNode after Match
Store_Return_LateStart ==
    /\ Returned("Store", "try")
    /\ IF ret = "true"
       THEN /\ p' = CompleteNode([p EXCEPT !.nodes[Top(p.open)].first = p.pos],
                                 top.rule.lab)
            /\ ops' = <<"CompleteNode">>
            /\ Return(TRUE)
       ELSE /\ p' = AbandonNode(p, top.rule.lab)
            /\ ops' = <<"AbandonNode">>
            /\ Return(FALSE)
    /\ UNCHANGED <<grammar, input>>

Store_Return ==
    /\ Returned("Store", "try")
    /\ IF ret = "true"
       THEN /\ p' = CompleteNode(p, top.rule.lab)
            /\ ops' = <<"CompleteNode">>
            /\ Return(TRUE)
       ELSE /\ p' = AbandonNode(p, top.rule.lab)
            /\ ops' = <<"AbandonNode">>
            /\ Return(FALSE)
    /\ UNCHANGED <<grammar, input>>

\* Store without the try/catch: the exception passes with the node open
Store_Catch_NoAbandon ==
    /\ Running /\ ret = "throw" /\ top.rule.op = "Store"
    /\ stack' = Front(stack)
    /\ ret' = "throw"
    /\ ops' = <<>>
    /\ UNCHANGED <<grammar, input, p>>

\* catch(...) { AbandonNode; throw; }
Store_Catch ==
    /\ Running /\ ret = "throw" /\ top.rule.op = "Store"
    /\ p' = AbandonNode(p, top.rule.lab)
    /\ ops' = <<"AbandonNode">>
    /\ stack' = Front(stack)
    /\ ret' = "throw"
    /\ UNCHANGED <<grammar, input>>

\* Or written with a handler that takes an exception for a failed alternative
Unwind_OrCatches ==
    /\ Running /\ ret = "throw" /\ top.rule.op # "Store"
    /\ IF top.rule.op = "Or"
       THEN IF top.i < NumSlots
            THEN Call(p, top.rule.rs[top.i + 1], "try", 0, top.i + 1)
            ELSE Return(FALSE)
       ELSE stack' = Front(stack) /\ ret' = "throw"
    /\ ops' = <<>>
    /\ UNCHANGED <<grammar, input, p>>

\* The rules holding a saved position restoring it while the exception passes
Unwind_Restores ==
    /\ Running /\ ret = "throw" /\ top.rule.op # "Store"
    /\ stack' = Front(stack)
    /\ ret' = "throw"
    /\ IF top.rule.op \in {"Seq", "At", "NotAt", "Repeat", "UntilPast"}
       THEN p' = SetPos(p, top.pos) /\ ops' = <<"SetPos">>
       ELSE p' = p /\ ops' = <<>>
    /\ UNCHANGED <<grammar, input>>

\* An exception leaves a Match that has no handler: every rule but Store
Unwind ==
    /\ Running /\ ret = "throw" /\ top.rule.op # "Store"
    /\ stack' = Front(stack)
    /\ ret' = "throw"
    /\ ops' = <<>>
    /\ UNCHANGED <<grammar, input, p>>

-----------------------------------------------------------------------------
(* Finao, lines 57-67 *)

Finao_Enter ==
    /\ Entering("Finao")
    /\ Call(p, Sub, "try", 0, 0)
    /\ ops' = <<>>
    /\ UNCHANGED <<grammar, input, p>>

\* Finao returning the failure instead of throwing
Finao_Return_NoThrow ==
    /\ Returned("Finao", "try")
    /\ Return(ret = "true")
    /\ ops' = <<>>
    /\ UNCHANGED <<grammar, input, p>>

Finao_Return ==
    /\ Returned("Finao", "try")
    /\ stack' = Front(stack)
    /\ ret' = IF ret = "true" THEN "true" ELSE "throw"
    /\ ops' = <<>>
    /\ UNCHANGED <<grammar, input, p>>

-----------------------------------------------------------------------------
(* At and NotAt, lines 102-130 *)

At_Enter ==
    /\ Entering("At")
    /\ Call(p, Sub, "try", GetPos(p), 0)
    /\ ops' = <<"GetPos">>
    /\ UNCHANGED <<grammar, input, p>>

At_Return ==
    /\ Returned("At", "try")
    /\ IF ret = "true"
       THEN /\ p' = SetPos(p, top.pos) /\ ops' = <<"SetPos">> /\ Return(TRUE)
       ELSE /\ p' = p /\ ops' = <<>> /\ Return(FALSE)
    /\ UNCHANGED <<grammar, input>>

NotAt_Enter ==
    /\ Entering("NotAt")
    /\ Call(p, Sub, "try", GetPos(p), 0)
    /\ ops' = <<"GetPos">>
    /\ UNCHANGED <<grammar, input, p>>

\* NotAt without the SetPos(pos) after a match of the sub-rule
NotAt_Return_NoRestore ==
    /\ Returned("NotAt", "try")
    /\ Return(ret # "true")
    /\ ops' = <<>>
    /\ UNCHANGED <<grammar, input, p>>

NotAt_Return ==
    /\ Returned("NotAt", "try")
    /\ IF ret = "true"
       THEN /\ p' = SetPos(p, top.pos) /\ ops' = <<"SetPos">> /\ Return(FALSE)
       ELSE /\ p' = p /\ ops' = <<>> /\ Return(TRUE)
    /\ UNCHANGED <<grammar, input>>

-----------------------------------------------------------------------------
(* Or and Seq, lines 134-205: i is the slot whose Match is running *)

Or_Enter ==
    /\ Entering("Or")
    /\ Call(p, top.rule.rs[1], "try", 0, 1)
    /\ ops' = <<>>
    /\ UNCHANGED <<grammar, input, p>>

\* Or written with | : the later alternatives run after one has matched
Or_Next_TriesAll ==
    /\ Returned("Or", "try")
    /\ IF top.i < NumSlots
       THEN Call(p, top.rule.rs[top.i + 1], "try", 0, top.i + 1)
       ELSE Return(ret = "true")
    /\ ops' = <<>>
    /\ UNCHANGED <<grammar, input, p>>

Or_Next ==
    /\ Returned("Or", "try")
    /\ IF ret = "true"
       THEN Return(TRUE)
       ELSE IF top.i < NumSlots
       THEN Call(p, top.rule.rs[top.i + 1], "try", 0, top.i + 1)
       ELSE Return(FALSE)
    /\ ops' = <<>>
    /\ UNCHANGED <<grammar, input, p>>

Seq_Enter ==
    /\ Entering("Seq")
    /\ Call(p, top.rule.rs[1], "try", GetPos(p), 1)
    /\ ops' = <<"GetPos">>
    /\ UNCHANGED <<grammar, input, p>>

\* Seq going on with the next slot after a slot has failed
Seq_Next_SkipsFailure ==
    /\ Returned("Seq", "try")
    /\ IF top.i < NumSlots
       THEN /\ Call(p, top.rule.rs[top.i + 1], "try", top.pos, top.i + 1)
            /\ p' = p /\ ops' = <<>>
       ELSE IF ret = "true"
       THEN /\ Return(TRUE) /\ p' = p /\ ops' = <<>>
       ELSE /\ p' = SetPos(p, top.pos) /\ ops' = <<"SetPos">> /\ Return(FALSE)
    /\ UNCHANGED <<grammar, input>>

\* Seq_Next without the SetPos(pos) of the else branch
Seq_Next_NoRestore ==
    /\ Returned("Seq", "try")
    /\ IF ret = "true" /\ top.i < NumSlots
       THEN Call(p, top.rule.rs[top.i + 1], "try", top.pos, top.i + 1)
       ELSE Return(ret = "true")
    /\ ops' = <<>>
    /\ UNCHANGED <<grammar, input, p>>

Seq_Next ==
    /\ Returned("Seq", "try")
    /\ IF ret = "true"
       THEN /\ IF top.i < NumSlots
               THEN Call(p, top.rule.rs[top.i + 1], "try", top.pos, top.i + 1)
               ELSE Return(TRUE)
            /\ p' = p /\ ops' = <<>>
       ELSE /\ p' = SetPos(p, top.pos) /\ ops' = <<"SetPos">> /\ Return(FALSE)
    /\ UNCHANGED <<grammar, input>>

-----------------------------------------------------------------------------
(* Star, Plus, Opt, Repeat, lines 211-272 *)

Star_Enter ==
    /\ Entering("Star")
    /\ \E e \in AtEndVals(p) :
          IF ~e THEN Call(p, Sub, "loop", 0, 1) ELSE Return(TRUE)
    /\ ops' = <<"AtEnd">>
    /\ UNCHANGED <<grammar, input, p>>

\* Star written with if instead of while: at most one application
Star_Loop_Once ==
    /\ Returned("Star", "loop")
    /\ Return(TRUE)
    /\ ops' = <<>>
    /\ UNCHANGED <<grammar, input, p>>

\* while (Rule_T::Match(p)) { }
Star_Loop ==
    /\ Returned("Star", "loop")
    /\ IF ret = "true" THEN Call(p, Sub, "loop", 0, Count(top.i)) ELSE Return(TRUE)
    /\ ops' = <<>>
    /\ UNCHANGED <<grammar, input, p>>

Plus_Enter ==
    /\ Entering("Plus")
    /\ Call(p, Sub, "first", 0, 1)
    /\ ops' = <<>>
    /\ UNCHANGED <<grammar, input, p>>

\* Plus without the call of Star<Rule_T>::Match: one match only
Plus_First_NoStar ==
    /\ Returned("Plus", "first")
    /\ Return(ret = "true")
    /\ ops' = <<>>
    /\ UNCHANGED <<grammar, input, p>>

Plus_First ==
    /\ Returned("Plus", "first")
    /\ IF ret = "true" THEN Call(p, Star(Sub), "rest", 0, 1) ELSE Return(FALSE)
    /\ ops' = <<>>
    /\ UNCHANGED <<grammar, input, p>>

\* the result of Star<Rule_T>::Match is dropped
Plus_Rest ==
    /\ Returned("Plus", "rest")
    /\ Return(TRUE)
    /\ ops' = <<>>
    /\ UNCHANGED <<grammar, input, p>>

\* Opt without the test of AtEnd: the rule is tried at the end of input too
Opt_Enter_NoAtEnd ==
    /\ Entering("Opt")
    /\ Call(p, Sub, "try", 0, 1)
    /\ ops' = <<>>
    /\ UNCHANGED <<grammar, input, p>>

Opt_Enter ==
    /\ Entering("Opt")
    /\ \E e \in AtEndVals(p) :
          IF ~e THEN Call(p, Sub, "try", 0, 1) ELSE Return(TRUE)
    /\ ops' = <<"AtEnd">>
    /\ UNCHANGED <<grammar, input, p>>

Opt_Return ==
    /\ Returned("Opt", "try")
    /\ Return(TRUE)
    /\ ops' = <<>>
    /\ UNCHANGED <<grammar, input, p>>

\* i counts the matches done so far
Repeat_Enter ==
    /\ Entering("Repeat")
    /\ IF 0 < top.rule.n THEN Call(p, Sub, "loop", GetPos(p), 0) ELSE Return(TRUE)
    /\ ops' = <<"GetPos">>
    /\ UNCHANGED <<grammar, input, p>>

\* Repeat without p.SetPos(pos) before return false
Repeat_Loop_NoRestore ==
    /\ Returned("Repeat", "loop")
    /\ IF ret = "false"
       THEN Return(FALSE)
       ELSE IF top.i + 1 < top.rule.n
            THEN Call(p, Sub, "loop", top.pos, top.i + 1)
            ELSE Return(TRUE)
    /\ p' = p /\ ops' = <<>>
    /\ UNCHANGED <<grammar, input>>

Repeat_Loop ==
    /\ Returned("Repeat", "loop")
    /\ IF ret = "false"
       THEN /\ p' = SetPos(p, top.pos) /\ ops' = <<"SetPos">> /\ Return(FALSE)
       ELSE /\ IF top.i + 1 < top.rule.n
               THEN Call(p, Sub, "loop", top.pos, top.i + 1)
               ELSE Return(TRUE)
            /\ p' = p /\ ops' = <<>>
    /\ UNCHANGED <<grammar, input>>

-----------------------------------------------------------------------------
(* UntilPast, lines 277-295 *)

UntilPast_Enter ==
    /\ Entering("UntilPast")
    /\ Call(p, Sub, "loop", GetPos(p), 1)
    /\ ops' = <<"GetPos">>
    /\ UNCHANGED <<grammar, input, p>>

UntilPast_Loop ==
    /\ Returned("UntilPast", "loop")
    /\ IF ret = "true"
       THEN /\ Return(TRUE) /\ p' = p /\ ops' = <<>>
       ELSE \E c \in GotoNextVals(p) : \E e \in AtEndVals(c) :
               IF c.fault
               THEN /\ stack' = stack /\ ret' = "abort" /\ p' = c
                    /\ ops' = <<"GotoNext">>
               ELSE IF e
               THEN /\ p' = SetPos(c, top.pos) /\ Return(FALSE)
                    /\ ops' = <<"GotoNext", "AtEnd", "SetPos">>
               ELSE /\ p' = c /\ Call(c, Sub, "loop", top.pos, Count(top.i))
                    /\ ops' = <<"GotoNext", "AtEnd">>
    /\ UNCHANGED <<grammar, input>>

-----------------------------------------------------------------------------
(* The grammars matched *)

Hash == Literal("#")

Leaves == {True_T, False_T, EndOfInput_T, Digit, Hash}

\* Rules that can fail after having consumed input or completed a node
Backtrackers ==
    { SeqRule(<<Digit, Hash>>),
      SeqRule(<<Store(L1, Digit), Hash>>),
      Store(L1, SeqRule(<<Digit, Hash>>)),
      SeqRule(<<Store(L1, Plus(Digit)), EndOfInput_T>>),
      Or(<<SeqRule(<<Digit, Digit>>), Hash>>),
      NotAt(Store(L1, Digit)),
      UntilPast(Hash),
      Plus(Digit) }

\* Rules that can raise
Escalators ==
    { Finao(Digit),
      StoreFinao(L1, Digit),
      FinaoIf(Hash, Plus(Digit)),
      StoreIf(L1, Hash, Digit),
      Store(L1, SeqRule(<<Opt(Hash), Finao(Digit)>>)) }

Cores == Leaves \cup Backtrackers \cup Escalators

Wrap(S) ==
    UNION { { Store(L2, r), Finao(r), At(r), NotAt(r), Star(r), Plus(r), Opt(r),
              Repeat(r, 2), UntilPast(r), UntilAt(r) } : r \in S }

Pairs(S, T) ==
    UNION { { SeqRule(<<a, b>>), SeqRule(<<b, a>>), Or(<<a, b>>), Or(<<b, a>>) } :
            <<a, b>> \in S \X T }

Grammars ==
    Cores \cup Wrap(Cores) \cup Pairs(Cores, {Digit, Hash, EndOfInput_T})
          \cup Wrap(Wrap(Escalators))
          \cup { Or(<<False_T, Digit, Hash>>), Repeat(Digit, 0), Repeat(Digit, 3),
                 SeqRule(<<Digit, Hash, Digit>>) }
          \cup { Star(At(Digit)), Star(Opt(Digit)), Star(Star(Digit)),
                 SeqRule(<<Star(Digit), Digit>>),
                 SeqRule(<<Digit, Star(Digit)>>) }

-----------------------------------------------------------------------------
(* The specification: one call of grammar.Match(p) on a fresh parser *)

NewParser == [pos |-> 0, nodes |-> <<>>, open |-> <<>>, fault |-> FALSE]

Init ==
    /\ grammar \in Grammars
    /\ input \in Inputs
    /\ p = NewParser
    /\ stack = <<Frame(NewParser, grammar)>>
    /\ ret = "none"
    /\ ops = <<>>

Next ==
    \/ True_Match \/ False_Match \/ EndOfInput_Match \/ Char_Match
    \/ Store_Enter \/ Store_Return \/ Store_Catch \/ Unwind
    \/ Finao_Enter \/ Finao_Return
    \/ At_Enter \/ At_Return \/ NotAt_Enter \/ NotAt_Return
    \/ Or_Enter \/ Or_Next \/ Seq_Enter \/ Seq_Next
    \/ Star_Enter \/ Star_Loop \/ Plus_Enter \/ Plus_First \/ Plus_Rest
    \/ Opt_Enter \/ Opt_Return \/ Repeat_Enter \/ Repeat_Loop
    \/ UntilPast_Enter \/ UntilPast_Loop

Spec == Init /\ [][Next]_vars

\* One thread runs the match: while a step is possible, a step is taken
FairSpec == Spec /\ WF_vars(Next)

-----------------------------------------------------------------------------
(* Observing calls: a step that ends the innermost call, and how *)

Done == stack = <<>>
Exits(b) == stack # <<>> /\ stack' = Front(stack) /\ ret' = b
ExitsRule(o, b) == Exits(b) /\ top.rule.op = o
\* the innermost call invokes a sub-rule
Calls == stack # <<>> /\ Len(stack') = Len(stack) + 1
Callee == Top(stack')

Txt(a, b, c) == <<a, b, c>>

\* the open nodes of c, outermost first
OpenNodes(c) == [k \in 1..Len(c.open) |-> c.nodes[c.open[k]]]

-----------------------------------------------------------------------------
(* C1: failure transparency.  Whenever a call of Match, of any rule, returns
   false, the position and the stack of open nodes (which nodes are open, and
   what they hold) are what they were when the call was made. *)
C1_FailureTransparency ==
    [][Exits("false") =>
          /\ p'.pos = top.entry.pos
          /\ p'.open = top.entry.open
          /\ OpenNodes(p') = OpenNodes(top.entry)]_vars

\* Seq(Store(L1, Digit), '#') inside a Store has failed on "1a" after the digit
\* was consumed and a node opened: position and open stack are back.
C1_Witness ==
    /\ grammar = Store(L2, SeqRule(<<Store(L1, Digit), Hash>>))
    /\ input = <<"1", "a">>
    /\ Len(stack) = 1 /\ ret = "false" /\ ops = <<"SetPos">>
    /\ p.pos = 0 /\ p.open = <<1>>

\* The scenario of C2: Seq(Store(L1, Plus(Digit)), EndOfInput) on "11a" fails
\* at offset 0 with no node in the tree.
C2_Scenario ==
    (Done /\ grammar = SeqRule(<<Store(L1, Plus(Digit)), EndOfInput_T>>)
          /\ input = Txt("1", "1", "a"))
    => (ret = "false" /\ p.pos = 0 /\ p.nodes = <<>>)

(* C2: a failed match leaves no node behind.  Whenever a call of Match
   returns false the tree is what it was when the call was made, nodes
   completed by earlier sub-rules included; in particular the scenario
   above ends without a node. *)
C2_NoNodeLeftBehind ==
    [][(Exits("false") => p'.nodes = top.entry.nodes) /\ C2_Scenario']_vars

(* C3: Store/abandon symmetry.  A call of Store(L, R).Match does exactly two
   things to the tree: StartNode when it is entered, and when it is left one
   CompleteNode if R returned true, one AbandonNode if R returned false or
   raised.  When it is left the open-node stack is the one of its entry and
   its node (the first after the nodes of the entry) is completed or absent. *)
C3_StoreSymmetry ==
    [][(stack # <<>> /\ top.rule.op = "Store" /\ stack' # stack) =>
          LET n == Len(top.entry.nodes) + 1 IN
          IF top.pc = "start"
          THEN /\ Calls /\ ops' = <<"StartNode">> /\ Callee.rule = Sub
               /\ p'.open = Append(p.open, n) /\ ~p'.nodes[n].done
          ELSE /\ stack' = Front(stack)
               /\ p'.open = top.entry.open
               /\ \A k \in 1..Len(p'.open) : ~p'.nodes[p'.open[k]].done
               /\ IF ret = "true"
                  THEN /\ ret' = "true" /\ ops' = <<"CompleteNode">>
                       /\ Len(p'.nodes) >= n /\ p'.nodes[n].done
                  ELSE /\ ret' = ret /\ ret \in {"false", "throw"}
                       /\ ops' = <<"AbandonNode">>
                       /\ Len(p'.nodes) = n - 1]_vars

\* Store(L2, Store(L1, Finao(Digit))) on "a": the escalation has left both
\* Stores, the inner one first, and no node is open or left.
C3_Witness ==
    /\ grammar = Store(L2, StoreFinao(L1, Digit))
    /\ input = <<"a">>
    /\ Done /\ ret = "throw" /\ ops = <<"AbandonNode">>
    /\ p.open = <<>> /\ p.nodes = <<>>

(* C4: a successful Store records its span.  When Store(L, R).Match returns
   true, the first node after those of the entry is completed, labelled L,
   runs from the entry position to the position R ended at, hangs under the
   node that was innermost open at entry, and every other new node lies below
   it; the nodes of the entry are untouched.  Seq(Store(L1, Plus(Digit)),
   EndOfInput) on "111" returns true at offset 3 with the single node
   L1 = 0..3. *)
C4_StoreSpan ==
    [][/\ ExitsRule("Store", "true") =>
             LET n == Len(top.entry.nodes) + 1 IN
             /\ Len(p'.nodes) >= n
             /\ p'.nodes[n] = [label |-> top.rule.lab, first |-> top.entry.pos,
                               last |-> p.pos, done |-> TRUE,
                               parent |-> IF top.entry.open = <<>> THEN 0
                                          ELSE Top(top.entry.open)]
             /\ p'.pos = p.pos
             /\ SubSeq(p'.nodes, 1, n - 1) = top.entry.nodes
             /\ \A k \in (n + 1)..Len(p'.nodes) : IsDescendant(p'.nodes, k, n)
       /\ (Done /\ grammar = SeqRule(<<Store(L1, Plus(Digit)), EndOfInput_T>>)
                /\ input = Txt("1", "1", "1"))'
             => /\ ret' = "true" /\ p'.pos = 3 /\ p'.open = <<>>
                /\ p'.nodes = <<[label |-> L1, first |-> 0, last |-> 3,
                                 done |-> TRUE, parent |-> 0]>>]_vars

\* the scenario has ended: one completed node L1 over "111", cursor at the end
C4_Witness ==
    /\ grammar = SeqRule(<<Store(L1, Plus(Digit)), EndOfInput_T>>)
    /\ input = Txt("1", "1", "1")
    /\ Done /\ ret = "true" /\ p.pos = 3
    /\ Len(p.nodes) = 1 /\ p.nodes[1].done /\ p.nodes[1].last = 3

-----------------------------------------------------------------------------
(* What the character rules match, read off the text *)

\* the text holds a character of cs at offset k
HasAt(cs, k) == k < Len(input) /\ input[k + 1] \in cs

IsFinaoIf(r) ==
    /\ r.op = "Seq"
    /\ r.rs[2].op = "Finao"
    /\ \A k \in 3..NumSlots : r.rs[k] = True_T

(* C5: commit point.  A call of FinaoIf(guard, rule) = Seq(guard, Finao(rule))
   runs guard at its entry position; if guard returns false it returns
   false with the position of its entry and nothing is raised; if guard
   returns true it runs Finao(rule), which raises when rule returns false
   and never returns false, so the call returns false only for a failed
   guard and returns true only after both matched.  FinaoIf('#', Plus(Digit))
   returns false at offset 0 on a text not starting with '#', true on "#1...",
   and escalates on '#' followed by no digit. *)
C5_CommitPoint ==
    [][/\ (stack # <<>> /\ IsFinaoIf(top.rule) /\ stack' # stack) =>
             IF top.pc = "start"
             THEN Calls /\ Callee.rule = top.rule.rs[1] /\ p' = p
             ELSE IF top.i = 1
             THEN /\ ret = "false" => /\ Exits("false")
                                      /\ p'.pos = top.entry.pos
                  /\ ret = "true" => Calls /\ Callee.rule = top.rule.rs[2]
             ELSE /\ ret \in {"true", "throw"}
                  /\ ret' # "false"
                  /\ Exits("true") => top.i = NumSlots
       /\ (Len(stack) > 1 /\ top.rule.op = "Finao"
              /\ IsFinaoIf(stack[Len(stack) - 1].rule) /\ top.pc = "try") =>
             /\ stack' = Front(stack) /\ p' = p
             /\ ret' = IF ret = "true" THEN "true" ELSE "throw"
       /\ (Done /\ grammar = FinaoIf(Hash, Plus(Digit)))' =>
             IF ~HasAt({"#"}, 0) THEN ret' = "false" /\ p'.pos = 0
             ELSE IF HasAt(Digits, 1) THEN ret' = "true"
             ELSE ret' = "throw"]_vars

\* FinaoIf('#', Plus(Digit)) on "#aa" has ended with the escalation
C5_Witness ==
    /\ grammar = FinaoIf(Hash, Plus(Digit))
    /\ input = Txt("#", "a", "a")
    /\ Done /\ ret = "throw"

(* C6: escalation is never absorbed.  Once an escalation is under way, every
   step ends the innermost call with the escalation still raised: no call
   returns true or false, and no sub-rule or alternative is invoked, until
   the outermost call has ended with it. *)
C6_EscalationNotAbsorbed ==
    [][ret = "throw" => /\ stack # <<>>
                        /\ stack' = Front(stack)
                        /\ ret' = "throw"]_vars

\* Or(Finao(Digit), '#') on "#": the first alternative raised, and the match
\* ended with the escalation although the second alternative matches the text
C6_Witness ==
    /\ grammar = Or(<<Finao(Digit), Hash>>)
    /\ input = <<"#">>
    /\ Done /\ ret = "throw"

(* C7: propagation leaves the position alone.  The step that raises and
   every step of the propagation perform no SetPos and no GotoNext and leave
   the position where it is; a Store that is left performs one AbandonNode,
   taking its own node (the innermost open one) away, any other rule performs
   no parser operation at all; every call left this way leaves the open-node
   stack as it was at its entry. *)
C7_PropagationKeepsPosition ==
    [][(ret' = "throw" /\ stack' # stack) =>
          /\ stack # <<>> /\ stack' = Front(stack)
          /\ p'.pos = p.pos
          /\ p'.open = top.entry.open
          /\ IF top.rule.op = "Store"
             THEN /\ ops' = <<"AbandonNode">>
                  /\ p.open # <<>> /\ p'.open = Front(p.open)
                  /\ Len(p'.nodes) = Top(p.open) - 1
             ELSE /\ ops' = <<>> /\ p' = p]_vars

\* StoreIf(L1, '#', Digit) on "#a": raised at offset 1 after '#' was consumed;
\* the match has ended with the position still 1 and the node abandoned
C7_Witness ==
    /\ grammar = StoreIf(L1, Hash, Digit)
    /\ input = <<"#", "a">>
    /\ Done /\ ret = "throw"
    /\ p.pos = 1 /\ p.open = <<>> /\ p.nodes = <<>>

(* C8: lookahead purity.  At(R) and NotAt(R) run R at their entry position
   and, when R has returned, return with the position of their entry: At
   with the result of R, NotAt with the opposite.  At(Digit) returns true
   exactly on a text starting with a digit, NotAt(Digit) exactly on the
   others, both at offset 0. *)
C8_LookaheadPurity ==
    [][/\ (stack # <<>> /\ top.rule.op \in {"At", "NotAt"} /\ stack' # stack) =>
             IF top.pc = "start"
             THEN /\ Calls /\ Callee.rule = Sub /\ p' = p
                  /\ Callee.entry.pos = top.entry.pos
             ELSE ret \in {"true", "false"} =>
                  /\ stack' = Front(stack)
                  /\ p'.pos = top.entry.pos
                  /\ ret' = IF (top.rule.op = "At") = (ret = "true")
                            THEN "true" ELSE "false"
       /\ (Done /\ grammar = At(Digit))' =>
             /\ p'.pos = 0
             /\ ret' = IF HasAt(Digits, 0) THEN "true" ELSE "false"
       /\ (Done /\ grammar = NotAt(Digit))' =>
             /\ p'.pos = 0
             /\ ret' = IF HasAt(Digits, 0) THEN "false" ELSE "true"]_vars

\* NotAt(Seq(Digit, '#')) on "1#": the sub-rule consumed both characters and
\* NotAt has returned false at offset 0
C8_Witness ==
    /\ grammar = NotAt(SeqRule(<<Digit, Hash>>))
    /\ input = <<"1", "#">>
    /\ Done /\ ret = "false" /\ ops = <<"SetPos">> /\ p.pos = 0

(* C9: sequence atomicity.  Seq runs its slots left to right, the first at
   its entry position and each next one where the one before ended, and only
   after the one before returned true; at the first slot that returns false
   it runs no further slot and returns false with the position of its entry;
   it returns true, where the last slot ended, only after all slots returned
   true.  Seq(Digit, '#', Digit) returns true at offset 3 on "1#1..." and
   false at offset 0 on every other text. *)
C9_SeqAtomicity ==
    [][/\ (stack # <<>> /\ top.rule.op = "Seq" /\ stack' # stack) =>
             IF top.pc = "start"
             THEN /\ Calls /\ Callee.rule = top.rule.rs[1] /\ p' = p
                  /\ Callee.entry.pos = top.entry.pos
             ELSE /\ ret = "true" =>
                       IF top.i < NumSlots
                       THEN /\ Calls /\ Callee.rule = top.rule.rs[top.i + 1]
                            /\ p' = p /\ Callee.entry.pos = p.pos
                       ELSE Exits("true") /\ p' = p
                  /\ ret = "false" =>
                       Exits("false") /\ p'.pos = top.entry.pos
       /\ (Done /\ grammar = SeqRule(<<Digit, Hash, Digit>>))' =>
             IF HasAt(Digits, 0) /\ HasAt({"#"}, 1) /\ HasAt(Digits, 2)
             THEN ret' = "true" /\ p'.pos = 3
             ELSE ret' = "false" /\ p'.pos = 0]_vars

\* Seq(Digit, '#', Digit) on "1#a": two slots consumed input, the third
\* failed, and Seq has returned false at offset 0
C9_Witness ==
    /\ grammar = SeqRule(<<Digit, Hash, Digit>>)
    /\ input = Txt("1", "#", "a")
    /\ Done /\ ret = "false" /\ ops = <<"SetPos">> /\ p.pos = 0

(* C10: ordered choice.  Or runs its alternatives left to right, each one at
   the position of the Or's entry and only after the one before returned
   false; when an alternative returns true the Or returns true at once,
   with no further call and no parser operation; it returns false only
   after its last alternative returned false.  Or(False_T, Digit, '#')
   returns true at offset 1 on a text starting with a digit or '#', and
   false at offset 0 on the others. *)
C10_OrderedChoice ==
    [][/\ (stack # <<>> /\ top.rule.op = "Or" /\ stack' # stack) =>
             IF top.pc = "start"
             THEN /\ Calls /\ Callee.rule = top.rule.rs[1] /\ p' = p
                  /\ Callee.entry.pos = top.entry.pos
             ELSE /\ ret = "true" =>
                       Exits("true") /\ p' = p /\ ops' = <<>>
                  /\ ret = "false" =>
                       IF top.i < NumSlots
                       THEN /\ Calls /\ Callee.rule = top.rule.rs[top.i + 1]
                            /\ p' = p /\ Callee.entry.pos = top.entry.pos
                       ELSE Exits("false")
       /\ (Done /\ grammar = Or(<<False_T, Digit, Hash>>))' =>
             IF HasAt(Digits \cup {"#"}, 0)
             THEN ret' = "true" /\ p'.pos = 1
             ELSE ret' = "false" /\ p'.pos = 0]_vars

\* Or(Seq(Digit, '#'), Digit) on "1a": the first alternative consumed the digit
\* and failed, the second ran from offset 0 again and has just returned true
C10_Witness ==
    /\ grammar = Or(<<SeqRule(<<Digit, Hash>>), Digit>>)
    /\ input = <<"1", "a">>
    /\ Len(stack) = 1 /\ top.i = 2 /\ ret = "true" /\ p.pos = 1

-----------------------------------------------------------------------------
\* Rules that can succeed without consuming input, and one that cannot
Nullables == {True_T, EndOfInput_T, At(Digit), Opt(Digit), Star(Digit)}

(* C11: Star always completes with success.  A match of Star(R), for R one
   of True_T, EndOfInput, At(Digit), Opt(Digit), Star(Digit) or Digit,
   eventually ends, and ends with true. *)
C11_StarCompletes ==
    (grammar \in {Star(r) : r \in Nullables \cup {Digit}})
       => <>(Done /\ ret = "true")

\* the offset where the longest run of characters of cs from offset k ends
RECURSIVE Run(_, _)
Run(cs, k) == IF HasAt(cs, k) THEN Run(cs, k + 1) ELSE k

(* C12: greedy repetition without backtracking.  Star applies R first at its
   entry position and then again where the application before ended, for as
   long as R returns true, and returns true exactly where the first failing
   application was made (or at once when entered with no input left).
   Star(Digit) ends after the longest run of digits from offset 0, and
   Seq(Star(Digit), Digit) returns false at offset 0 on every text: the Star
   is not run again with fewer digits. *)
C12_GreedyNoBacktrack ==
    [][/\ (stack # <<>> /\ top.rule.op = "Star" /\ stack' # stack) =>
             IF top.pc = "start"
             THEN \/ /\ Calls /\ Callee.rule = Sub /\ p' = p
                     /\ Callee.entry.pos = top.entry.pos
                  \/ Exits("true") /\ p' = p /\ p.pos >= Len(input)
             ELSE /\ ret = "true" => /\ Calls /\ Callee.rule = Sub /\ p' = p
                                     /\ Callee.entry.pos = p.pos
                  /\ ret = "false" => Exits("true") /\ p' = p
       /\ (Done /\ grammar = Star(Digit))' =>
             ret' = "true" /\ p'.pos = Run(Digits, 0)
       /\ (Done /\ grammar = SeqRule(<<Star(Digit), Digit>>))' =>
             ret' = "false" /\ p'.pos = 0]_vars

\* Seq(Star(Digit), Digit) on "111": the Star took all three digits, the Digit
\* after it failed, and the Seq has returned false at offset 0
C12_Witness ==
    /\ grammar = SeqRule(<<Star(Digit), Digit>>)
    /\ input = Txt("1", "1", "1")
    /\ Done /\ ret = "false" /\ ops = <<"SetPos">> /\ p.pos = 0

\* the first offset from k on where a character of cs stands, Len(input) if none
RECURSIVE Scan(_, _)
Scan(cs, k) ==
    IF k >= Len(input) THEN Len(input)
    ELSE IF HasAt(cs, k) THEN k ELSE Scan(cs, k + 1)

(* C13: UntilPast(R) started at s returns true iff R matches at some position
   from s up to and including the end of input, with the position just past
   R's first match, and returns false restored to s otherwise.  So
   UntilPast('#') ends just past the first '#', or fails at offset 0 on a text
   without '#', and UntilPast(EndOfInput), whose rule matches at the end of
   every text, returns true at the end of the text. *)
C13_UntilPastFinds ==
    Done =>
       /\ grammar = UntilPast(Hash) =>
             IF Scan({"#"}, 0) < Len(input)
             THEN ret = "true" /\ p.pos = Scan({"#"}, 0) + 1
             ELSE ret = "false" /\ p.pos = 0
       /\ grammar = UntilPast(EndOfInput_T) =>
             ret = "true" /\ p.pos = Len(input)

(* C14: Repeat(R, N).  With N = 0 the call returns true at once without
   applying R.  Otherwise R is applied at the entry position and then where
   the application before ended; the call returns true, where the N-th
   application ended, exactly when N applications have returned true, and
   returns false at its entry position as soon as one application returns
   false.  Repeat(Digit, N) for N = 0, 2, 3 returns true at offset N when the
   text starts with N digits and false at offset 0 otherwise. *)
C14_RepeatExact ==
    [][/\ (stack # <<>> /\ top.rule.op = "Repeat" /\ stack' # stack) =>
             IF top.pc = "start"
             THEN IF top.rule.n = 0
                  THEN Exits("true") /\ p' = p
                  ELSE /\ Calls /\ Callee.rule = Sub /\ p' = p
                       /\ stack'[Len(stack)].i = 0
             ELSE /\ ret = "false" => Exits("false") /\ p'.pos = top.entry.pos
                  /\ ret = "true" =>
                        IF top.i + 1 = top.rule.n
                        THEN Exits("true") /\ p' = p
                        ELSE /\ top.i + 1 < top.rule.n
                             /\ Calls /\ Callee.rule = Sub /\ p' = p
                             /\ Callee.entry.pos = p.pos
                             /\ stack'[Len(stack)].i = top.i + 1
       /\ \A k \in {0, 2, 3} :
             (Done /\ grammar = Repeat(Digit, k))' =>
                IF Run(Digits, 0) >= k
                THEN ret' = "true" /\ p'.pos = k
                ELSE ret' = "false" /\ p'.pos = 0]_vars

\* Repeat(Digit, 3) on "11#": two digits matched, the third application failed,
\* and the call has returned false back at offset 0
C14_Witness ==
    /\ grammar = Repeat(Digit, 3)
    /\ input = Txt("1", "1", "#")
    /\ Done /\ ret = "false" /\ ops = <<"SetPos">> /\ p.pos = 0

(* C15: Plus(R) applies R at its entry position; if that application returns
   false, Plus returns false with the parser as R left it, at the entry
   position; if it returns true, Plus runs Star(R) from where R ended and
   returns true where Star(R) ended.  Plus(Digit) and Seq(Digit, Star(Digit))
   end alike on every text: true after the longest run of digits when the
   text starts with a digit, false at offset 0 otherwise. *)
C15_PlusIsSeqStar ==
    [][/\ (stack # <<>> /\ top.rule.op = "Plus" /\ stack' # stack) =>
             /\ top.pc = "start" => Calls /\ Callee.rule = Sub /\ p' = p
             /\ (top.pc = "first" /\ ret = "false") =>
                   Exits("false") /\ p' = p /\ p.pos = top.entry.pos
             /\ (top.pc = "first" /\ ret = "true") =>
                   Calls /\ Callee.rule = Star(Sub) /\ p' = p
             /\ (top.pc = "rest" /\ ret \in {"true", "false"}) =>
                   Exits("true") /\ p' = p
       /\ (Done /\ grammar \in {Plus(Digit), SeqRule(<<Digit, Star(Digit)>>)})' =>
             IF HasAt(Digits, 0)
             THEN ret' = "true" /\ p'.pos = Run(Digits, 0)
             ELSE ret' = "false" /\ p'.pos = 0]_vars

\* Plus(Digit) on "11#" has returned true after both digits
C15_Witness ==
    /\ grammar = Plus(Digit)
    /\ input = Txt("1", "1", "#")
    /\ Done /\ ret = "true" /\ p.pos = 2

(* C16: Opt(R).  Entered at the end of input, Opt returns true at once: R is
   not applied and the parser (position and nodes) is untouched.  Entered
   inside the text it applies R once at its entry position and, whatever R
   returned, returns true without a further application and without touching
   the parser: where R ended if R returned true, at the entry position if R
   returned false.  Opt(Digit) returns true on every text, at offset 1 when
   the text starts with a digit and at offset 0 otherwise. *)
C16_OptOnce ==
    [][/\ (stack # <<>> /\ top.rule.op = "Opt" /\ stack' # stack) =>
             /\ (top.pc = "start" /\ p.pos = Len(input)) =>
                   Exits("true") /\ p' = p /\ ops' = <<"AtEnd">>
             /\ (top.pc = "start" /\ p.pos < Len(input)) =>
                   /\ Calls /\ Callee.rule = Sub /\ p' = p
                   /\ stack'[Len(stack)].i = 1
             /\ (top.pc = "try" /\ ret \in {"true", "false"}) =>
                   /\ Exits("true") /\ p' = p /\ top.i = 1
                   /\ ret = "false" => p.pos = top.entry.pos
       /\ (Done /\ grammar = Opt(Digit))' =>
             /\ ret' = "true"
             /\ p'.pos = IF HasAt(Digits, 0) THEN 1 ELSE 0]_vars

\* Opt(Digit) on the empty text has returned true after AtEnd alone
C16_Witness ==
    /\ grammar = Opt(Digit)
    /\ input = <<>>
    /\ Done /\ ret = "true" /\ ops = <<"AtEnd">> /\ p = NewParser

\* the innermost call is a call of UntilAt
InUntilAt == stack # <<>> /\ top.rule.op = "UntilPast" /\ Sub.op = "At"

(* C17: UntilAt(R) is UntilPast(At(R)).  A call of it applies At(R) at its
   entry position and, after each false, one unit further on; the first time
   At(R) returns true, which it does at the position it was applied at, the
   call returns true at that position, nothing of R's match consumed; when it
   returns false the position is the entry position.  UntilAt('#') on a text
   holding '#' returns true at the offset of the first '#'; it returns true
   at an offset inside the text only there, and every false is at offset 0. *)
C17_UntilAtStopsBefore ==
    [][/\ (InUntilAt /\ stack' # stack) =>
             /\ top.pc = "start" =>
                   Calls /\ Callee.rule = Sub /\ Callee.entry.pos = top.entry.pos
             /\ (top.pc = "loop" /\ ret = "true") => Exits("true") /\ p' = p
             /\ (top.pc = "loop" /\ ret = "false") =>
                   \/ Exits("false") /\ p'.pos = top.entry.pos
                   \/ /\ Calls /\ Callee.rule = Sub
                      /\ p.pos < Len(input) => Callee.entry.pos = p.pos + 1
       /\ (/\ Len(stack) >= 2 /\ top.rule.op = "At"
           /\ stack[Len(stack) - 1].rule.op = "UntilPast"
           /\ Exits("true")) => p'.pos = top.entry.pos
       /\ (Done /\ grammar = UntilAt(Hash))' =>
             /\ Scan({"#"}, 0) < Len(input) =>
                   ret' = "true" /\ p'.pos = Scan({"#"}, 0)
             /\ (ret' = "true" /\ p'.pos <= Len(input)) =>
                   p'.pos = Scan({"#"}, 0) /\ HasAt({"#"}, p'.pos)
             /\ ret' = "false" => p'.pos = 0]_vars

\* UntilAt('#') on "1#1" has returned true at offset 1, in front of the '#'
C17_Witness ==
    /\ grammar = UntilAt(Hash)
    /\ input = Txt("1", "#", "1")
    /\ Done /\ ret = "true" /\ p.pos = 1

\* the number of slots of r up to its last slot that does not hold d
RealSlots(r, d) ==
    IF \A k \in 1..NumSlots : r.rs[k] = d THEN 0
    ELSE CHOOSE k \in 1..NumSlots :
            r.rs[k] # d /\ \A j \in (k + 1)..NumSlots : r.rs[j] = d

(* C18: sentinel padding is neutral.  True_T returns true and False_T returns
   false without any parser operation.  In a Seq, once its last real slot has
   returned true, only True_T slots are run, each returns true, the parser
   stays as the last real slot left it and the Seq returns true; the Seq
   returns false only right after a real slot returned false.  In an Or, once
   its last real alternative has returned false, only False_T slots are run,
   each returns false, the parser stays as it was and the Or returns false;
   the Or returns true only right after a real alternative returned true.
   Seq(Digit, '#') and Or(Digit, '#') end as the two-rule sequence and choice
   do, with no node made. *)
C18_PaddingNeutral ==
    [][/\ (stack # <<>> /\ top.rule.op \in {"True_T", "False_T"} /\ stack' # stack) =>
             /\ p' = p /\ ops' = <<>>
             /\ Exits(IF top.rule.op = "True_T" THEN "true" ELSE "false")
       /\ (/\ stack # <<>> /\ top.rule.op = "Seq" /\ top.pc = "try"
           /\ ret \in {"true", "false"} /\ stack' # stack) =>
             LET n == RealSlots(top.rule, True_T) IN
             /\ top.i > n => ret = "true"
             /\ (top.i >= n /\ ret = "true") =>
                   /\ p' = p
                   /\ Exits("true") \/ (Calls /\ Callee.rule = True_T)
             /\ Exits("false") => top.i <= n
             /\ Exits("true") => top.i = NumSlots
       /\ (/\ stack # <<>> /\ top.rule.op = "Or" /\ top.pc = "try"
           /\ ret \in {"true", "false"} /\ stack' # stack) =>
             LET n == RealSlots(top.rule, False_T) IN
             /\ top.i > n => ret = "false"
             /\ (top.i >= n /\ ret = "false") =>
                   /\ p' = p
                   /\ Exits("false") \/ (Calls /\ Callee.rule = False_T)
             /\ Exits("true") => top.i <= n
             /\ Exits("false") => top.i = NumSlots
       /\ (Done /\ grammar = SeqRule(<<Digit, Hash>>))' =>
             /\ p'.nodes = <<>>
             /\ IF HasAt(Digits, 0) /\ HasAt({"#"}, 1)
                THEN ret' = "true" /\ p'.pos = 2
                ELSE ret' = "false" /\ p'.pos = 0
       /\ (Done /\ grammar = Or(<<Digit, Hash>>))' =>
             /\ p'.nodes = <<>>
             /\ IF HasAt(Digits \cup {"#"}, 0)
                THEN ret' = "true" /\ p'.pos = 1
                ELSE ret' = "false" /\ p'.pos = 0]_vars

\* Seq(Digit, '#') on "1#1": the eight True_T slots have run, the last one has
\* returned, and the parser is still at offset 2 where '#' left it
C18_Witness ==
    /\ grammar = SeqRule(<<Digit, Hash>>)
    /\ input = Txt("1", "#", "1")
    /\ Len(stack) = 1 /\ top.i = NumSlots /\ ret = "true"
    /\ p.pos = 2 /\ p.nodes = <<>>

\* the parser operation o is among those of the last step
Did(o) == \E k \in 1..Len(ops) : ops[k] = o

(* C19: the engine never advances the cursor past the end.  Every step that
   calls GotoNext starts with the position inside the text, in front of an
   element; in particular UntilPast(R) entered at the end of input with R
   failing there does not call GotoNext. *)
C19_NoAdvancePastEnd ==
    [][Did("GotoNext")' => p.pos < Len(input)]_vars

\* r cannot return true without having advanced the position
RECURSIVE Progressive(_)
Progressive(r) ==
    CASE r.op \in {"Char", "False_T"} -> TRUE
      [] r.op \in {"Store", "Finao", "Plus", "UntilPast"} -> Progressive(r.rs[1])
      [] r.op = "Repeat" -> r.n > 0 /\ Progressive(r.rs[1])
      [] r.op = "Seq" -> \E k \in 1..NumSlots : Progressive(r.rs[k])
      [] r.op = "Or" -> \A k \in 1..NumSlots : Progressive(r.rs[k])
      [] OTHER -> FALSE

\* the input left at the entry of the call f
Remaining(f) == IF f.entry.pos < Len(input) THEN Len(input) - f.entry.pos ELSE 0

(* C20: progress bounds the loops.  A call of UntilPast(R) applies R at most
   (remaining input length at its entry + 1) times, for any R; a call of
   Star(R), and a call of Plus(R) counting its own application of R and those
   of its Star(R), does so too when R cannot succeed without advancing. *)
C20_BoundedApplications ==
    \A k \in 1..Len(stack) :
       LET f == stack[k] IN
       /\ f.rule.op = "UntilPast" => f.i <= Remaining(f) + 1
       /\ (f.rule.op = "Star" /\ Progressive(f.rule.rs[1])) =>
             f.i <= Remaining(f) + 1
       /\ (/\ f.rule.op = "Plus" /\ Progressive(f.rule.rs[1])
           /\ f.pc = "rest" /\ k < Len(stack)) =>
             1 + stack[k + 1].i <= Remaining(f) + 1

====
